---- MODULE Spec2Model ----
(***************************************************************************)
(* Session / credential lifecycle of the Firebase-Auth app: the four route *)
(* handlers (POST /api/auth/session, POST /api/auth/refresh-session,       *)
(* GET /api/user/me, POST /api/auth/logout), the UserService and User      *)
(* model they call, the JWT codec and the bcrypt hashing of stored tokens. *)
(*                                                                         *)
(* Strings are sequences of one-character strings, so that the JSON text   *)
(* of a token payload, and the part of it that bcrypt reads, are computed. *)
(* Time is one integer clock (now); the 7-day lifetime is SessionTTL ticks.*)
(***************************************************************************)
EXTENDS Integers, Sequences, FiniteSets, TLC

(* ---------------------------- bounds ----------------------------------- *)
\* last clock value the model advances to
MaxTime == 2
\* number of session records saved in one behaviour
MaxTokens == 2

\* number of createSession calls that run concurrently
MaxCalls == 2

(* ------------------------ program constants ---------------------------- *)
\* JWT_EXPIRES_IN = "7d" and getJWTExpiration(): the lifetime, in clock ticks
SessionTTL == 2
\* TOKEN_EXPIRY = "1h" of the reset tokens, in clock ticks
ResetTTL == 1
\* bcrypt reads at most the first 72 bytes of its input (bcryptjs key schedule:
\* 18 words of 4 bytes, taken from the start of the string)
BcryptMaxBytes == 72
\* length of base64url('{"alg":"HS256","typ":"JWT"}'), the first part of every
\* token jwt.sign produces with its default algorithm
JwtHeaderLen == 36

(* ----------------------------- strings --------------------------------- *)
\* The state holds strings as TLA+ strings; Chars gives the characters of each
\* string the model uses, and Str the string of a character sequence.
Q == "\""

Chars(s) ==
  CASE s = "" -> <<>>
    [] s = "Xq7mB2kLp9RtY4wZc1Na8VdE5fG1" ->
         <<"X", "q", "7", "m", "B", "2", "k", "L", "p", "9", "R", "t", "Y", "4",
           "w", "Z", "c", "1", "N", "a", "8", "V", "d", "E", "5", "f", "G", "1">>
    [] s = "Xq7mB2kLp9RtY4wZc1Na8VdE5fG2" ->
         <<"X", "q", "7", "m", "B", "2", "k", "L", "p", "9", "R", "t", "Y", "4",
           "w", "Z", "c", "1", "N", "a", "8", "V", "d", "E", "5", "f", "G", "2">>
    [] s = "A@x" -> <<"A", "@", "x">>
    [] s = "a@x" -> <<"a", "@", "x">>
    [] s = "b@x" -> <<"b", "@", "x">>
    [] s = "A" -> <<"A">>
    [] s = "a" -> <<"a">>
    [] s = "email" -> <<"e", "m", "a", "i", "l">>
    [] s = "google" -> <<"g", "o", "o", "g", "l", "e">>
    [] s = "github" -> <<"g", "i", "t", "h", "u", "b">>
    [] s = "password" -> <<"p", "a", "s", "s", "w", "o", "r", "d">>
    [] s = "google.com" -> <<"g", "o", "o", "g", "l", "e", ".", "c", "o", "m">>
    [] s = "github.com" -> <<"g", "i", "t", "h", "u", "b", ".", "c", "o", "m">>
    [] s = "firebase-auth-app" ->
         <<"f", "i", "r", "e", "b", "a", "s", "e", "-", "a", "u", "t", "h", "-", "a", "p", "p">>
    [] s = "firebase-auth-app-users" ->
         <<"f", "i", "r", "e", "b", "a", "s", "e", "-", "a", "u", "t", "h", "-", "a", "p", "p",
           "-", "u", "s", "e", "r", "s">>
    [] s = "uid" -> <<"u", "i", "d">>
    [] s = "name" -> <<"n", "a", "m", "e">>
    [] s = "provider" -> <<"p", "r", "o", "v", "i", "d", "e", "r">>
    [] s = "photoURL" -> <<"p", "h", "o", "t", "o", "U", "R", "L">>
    [] s = "sessionId" -> <<"s", "e", "s", "s", "i", "o", "n", "I", "d">>
    [] s = "iat" -> <<"i", "a", "t">>
    [] s = "exp" -> <<"e", "x", "p">>
    [] s = "aud" -> <<"a", "u", "d">>
    [] s = "iss" -> <<"i", "s", "s">>
    [] s = "short-secret" ->
         <<"s", "h", "o", "r", "t", "-", "s", "e", "c", "r", "e", "t">>
    [] s = "0123456789abcdef0123456789abcde" ->
         <<"0", "1", "2", "3", "4", "5", "6", "7", "8", "9", "a", "b", "c", "d",
           "e", "f", "0", "1", "2", "3", "4", "5", "6", "7", "8", "9", "a", "b",
           "c", "d", "e">>
    [] s = "0123456789abcdef0123456789abcdef" ->
         <<"0", "1", "2", "3", "4", "5", "6", "7", "8", "9", "a", "b", "c", "d",
           "e", "f", "0", "1", "2", "3", "4", "5", "6", "7", "8", "9", "a", "b",
           "c", "d", "e", "f">>
    [] s = "development-jwt-secret-at-least-32-characters-long-for-build" ->
         <<"d", "e", "v", "e", "l", "o", "p", "m", "e", "n", "t", "-", "j", "w",
           "t", "-", "s", "e", "c", "r", "e", "t", "-", "a", "t", "-", "l", "e",
           "a", "s", "t", "-", "3", "2", "-", "c", "h", "a", "r", "a", "c", "t",
           "e", "r", "s", "-", "l", "o", "n", "g", "-", "f", "o", "r", "-", "b",
           "u", "i", "l", "d">>

\* the strings that are values of the program (user data, claims)
Values == {"", "Xq7mB2kLp9RtY4wZc1Na8VdE5fG1", "Xq7mB2kLp9RtY4wZc1Na8VdE5fG2",
           "A@x", "a@x", "b@x", "A", "a", "email", "google", "github",
           "password", "google.com", "github.com"}

Str(cs) == CHOOSE s \in Values : Chars(s) = cs

\* null and undefined, which are no strings of Values
Null == "<null>"
Absent == "<undefined>"

\* issuer and audience of the session tokens
Issuer == "firebase-auth-app"
Audience == "firebase-auth-app-users"

\* an optional value: None, or Some(x)
None == <<>>
Some(x) == <<x>>
IsSome(o) == Len(o) = 1
Get(o) == o[1]

DigitChar == <<"0", "1", "2", "3", "4", "5", "6", "7", "8", "9">>

RECURSIVE NumStr(_)
\* decimal text of a natural number (template literal / JSON.stringify of a number)
NumStr(n) ==
  IF n < 10 THEN <<DigitChar[n + 1]>>
  ELSE NumStr(n \div 10) \o <<DigitChar[(n % 10) + 1]>>

\* String.prototype.toLowerCase, on the letters the model uses
LowerChar(c) ==
  CASE c = "A" -> "a"
    [] c = "X" -> "x"
    [] OTHER -> c

LowerChars(cs) == [i \in 1..Len(cs) |-> LowerChar(cs[i])]

toLowerCase(s) == Str(LowerChars(Chars(s)))

\* index of the first "@" of cs, or Len(cs)+1 when there is none
AtIndex(cs) ==
  IF \E i \in 1..Len(cs) : cs[i] = "@"
  THEN CHOOSE i \in 1..Len(cs) : cs[i] = "@" /\ \A j \in 1..(i - 1) : cs[j] # "@"
  ELSE Len(cs) + 1

\* the characters of cs before its first "@"
BeforeAt(cs) == SubSeq(cs, 1, AtIndex(cs) - 1)

\* email.split("@")[0]
LocalPart(s) == Str(BeforeAt(Chars(s)))

(* ------------------------------ JSON ----------------------------------- *)
\* JSON text (characters) of a string
JStr(s) == <<Q>> \o Chars(s) \o <<Q>>

\* JSON text of a value that is a string or null
JVal(v) == IF v = Null THEN <<"n", "u", "l", "l">> ELSE JStr(v)

JMember(k, txt) == JStr(k) \o <<":">> \o txt

RECURSIVE JoinMembers(_)
JoinMembers(ms) ==
  IF Len(ms) = 0 THEN <<>>
  ELSE IF Len(ms) = 1 THEN ms[1]
  ELSE ms[1] \o <<",">> \o JoinMembers(Tail(ms))

\* sessionId text: `session_${Date.now()}_${Math.random().toString(36).substring(2)}`
SessionIdChars(sid) ==
  <<"s", "e", "s", "s", "i", "o", "n", "_">> \o NumStr(sid.t) \o <<"_">> \o NumStr(sid.r)

\* the keys of the claims object jwt.sign builds: the caller's keys in insertion
\* order, then iat, exp, aud, iss
ClaimKeys ==
  <<"uid", "email", "name", "provider", "photoURL", "sessionId", "iat", "exp", "aud", "iss">>

\* the keys whose value can be undefined; JSON.stringify leaves those out
OptionalClaims == {"name", "provider", "photoURL"}

\* JSON text of the value of key k in the claims p
ClaimText(p, k) ==
  CASE k = "sessionId" -> <<Q>> \o SessionIdChars(p.sessionId) \o <<Q>>
    [] k \in {"iat", "exp"} -> NumStr(p[k])
    [] OTHER -> JVal(p[k])

\* JSON.stringify of the claims object
PayloadJson(p) ==
  LET keys == SelectSeq(ClaimKeys, LAMBDA k : k \in OptionalClaims => p[k] # Absent)
  IN <<"{">>
     \o JoinMembers([i \in 1..Len(keys) |-> JMember(keys[i], ClaimText(p, keys[i]))])
     \o <<"}">>

(* --------------------------- JWT codec --------------------------------- *)
\* env.JWT_SECRET
JWT_SECRET == "JWT_SECRET"

\* HMAC-SHA256 of the encoded header and payload: a value only the holder of the
\* key can compute, different for different payloads
HMAC(key, p) == <<key, p>>

\* the claim k of a decoded payload, undefined when the payload has none
Claim(p, k) == IF k \in DOMAIN p THEN p[k] ELSE Absent

\* the expiry check of jwt.verify at time t: a payload without exp never expires
NotExpired(p, t) == "exp" \in DOMAIN p => t < p.exp

\* jwt.sign(payload, JWT_SECRET, {expiresIn: "7d", issuer, audience}) at time t
signJWT(claims, t) ==
  LET payload == [uid |-> claims.uid, email |-> claims.email, name |-> claims.name,
                  provider |-> claims.provider, photoURL |-> claims.photoURL,
                  sessionId |-> claims.sessionId,
                  iat |-> t, exp |-> t + SessionTTL,
                  aud |-> Audience, iss |-> Issuer]
  IN [payload |-> payload, sig |-> HMAC(JWT_SECRET, payload)]

\* verifyJWT that gives jwt.verify neither the issuer nor the audience option
verifyJWT_noOptions(token, t) ==
  IF /\ token.sig = HMAC(JWT_SECRET, token.payload)
     /\ NotExpired(token.payload, t)
  THEN Some(token.payload)
  ELSE None

\* verifyJWT that gives jwt.verify no audience option
verifyJWT_noAudience(token, t) ==
  IF /\ token.sig = HMAC(JWT_SECRET, token.payload)
     /\ NotExpired(token.payload, t)
     /\ Claim(token.payload, "iss") = Issuer
  THEN Some(token.payload)
  ELSE None

\* jwt.verify(token, JWT_SECRET, {issuer, audience}) at time t: Some(claims), or
\* None where the code returns null
verifyJWT(token, t) ==
  IF /\ token.sig = HMAC(JWT_SECRET, token.payload)
     /\ NotExpired(token.payload, t)
     /\ Claim(token.payload, "aud") = Audience
     /\ Claim(token.payload, "iss") = Issuer
  THEN Some(token.payload)
  ELSE None

\* getJWTExpiration()
getJWTExpiration(t) == t + SessionTTL

\* generateSessionId(): the clock and a random string, r never drawn before
generateSessionId(t, r) == [t |-> t, r |-> r]

(* ------------------------ reset-token service -------------------------- *)
\* the purpose discriminator of a reset token
PasswordReset == "password_reset"

\* ResetTokenService.generateResetToken(userId, email) at time t:
\* jwt.sign({userId, email, type}, JWT_SECRET, {expiresIn: "1h"})
generateResetToken(userId, email, t) ==
  LET payload == [userId |-> userId, email |-> email, type |-> PasswordReset,
                  iat |-> t, exp |-> t + ResetTTL]
  IN [payload |-> payload, sig |-> HMAC(JWT_SECRET, payload)]

\* verifyResetToken that does not look at the type claim
verifyResetToken_noType(token, t) ==
  IF token.sig = HMAC(JWT_SECRET, token.payload) /\ NotExpired(token.payload, t)
  THEN Some(token.payload)
  ELSE None

\* ResetTokenService.verifyResetToken(token) at time t: jwt.verify(token,
\* JWT_SECRET), then the type check; None where it returns null
verifyResetToken(token, t) ==
  IF token.sig = HMAC(JWT_SECRET, token.payload) /\ NotExpired(token.payload, t)
  THEN IF Claim(token.payload, "type") # PasswordReset THEN None
       ELSE Some(token.payload)
  ELSE None

(* ----------------------------- bcrypt ---------------------------------- *)
\* The raw token is header "." base64url(payload JSON) "." signature. Of its
\* first BcryptMaxBytes characters, JwtHeaderLen + 1 are the header and the dot;
\* the rest are base64 characters of 6 bits each, so they cover this many whole
\* bytes of the payload JSON.
PayloadBytesHashed == ((BcryptMaxBytes - JwtHeaderLen - 1) * 6) \div 8

\* the first n characters of cs, all of cs when it has fewer
Take(cs, n) == SubSeq(cs, 1, IF Len(cs) < n THEN Len(cs) ELSE n)

\* what bcrypt reads of a raw token (the header, the same in every token, is
\* left out)
bcryptKey(token) == Take(PayloadJson(token.payload), PayloadBytesHashed)

\* bcrypt.hash(token, 10) with the random salt it generated
bcryptHash(token, salt) == [salt |-> salt, key |-> bcryptKey(token)]

\* bcrypt.compareSync(token, hash): hashes token with the salt of hash and
\* compares the digests
compareSync(token, hash) == bcryptKey(token) = hash.key
(* ------------------------ identity provider ---------------------------- *)
\* uids have the 28 characters of the uids Firebase Authentication generates
U1 == "Xq7mB2kLp9RtY4wZc1Na8VdE5fG1"
U2 == "Xq7mB2kLp9RtY4wZc1Na8VdE5fG2"

\* the ID tokens a client can send: an empty string, one Firebase rejects, and
\* one Firebase accepts, of the account U1 (decoded claims uid, email, name,
\* picture, firebase.sign_in_provider)
IdTokens ==
  { [kind |-> "empty", uid |-> "", email |-> "", name |-> Absent, picture |-> Absent,
     sip |-> Absent],
    [kind |-> "invalid", uid |-> "", email |-> "", name |-> Absent, picture |-> Absent,
     sip |-> Absent],
    [kind |-> "valid", uid |-> U1, email |-> "A@x", name |-> Absent, picture |-> Absent,
     sip |-> "password"] }

\* verifyIdToken(idToken): adminAuth.verifyIdToken throws for a token it rejects
verifyIdToken(idToken) ==
  IF idToken.kind = "valid"
  THEN [success |-> TRUE, decodedToken |-> idToken]
  ELSE [success |-> FALSE, decodedToken |-> idToken]

\* getProviderFromToken(token)
getProviderFromToken(token) ==
  IF token.sip # Absent /\ token.sip = "google.com" THEN "google"
  ELSE IF token.sip # Absent /\ token.sip = "github.com" THEN "github"
  ELSE "email"

\* a || b for string-or-missing values: b when a is undefined, null or ""
OrElse(a, b) == IF a = Absent \/ a = Null \/ a = "" THEN b ELSE a

(* --------------------- User model (documents) -------------------------- *)
\* the collection is a function from the uids that have a document to it

\* userSchema.methods.cleanExpiredSessions at time t
cleanExpiredSessions(user, t) ==
  [user EXCEPT !.sessions = SelectSeq(user.sessions, LAMBDA s : s.expiresAt > t)]

\* addSession that assigns the list instead of pushing to it
addSession_assign(user, token, expiresAt, salt, t) ==
  [user EXCEPT !.sessions = <<[tokenHash |-> bcryptHash(token, salt), issuedAt |-> t,
                               expiresAt |-> expiresAt]>>,
               !.lastSeen = t]

\* userSchema.methods.addSession at time t, salt the salt bcrypt generates
addSession(user, token, expiresAt, salt, t) ==
  LET pushed == [user EXCEPT !.sessions =
                   Append(user.sessions,
                          [tokenHash |-> bcryptHash(token, salt), issuedAt |-> t,
                           expiresAt |-> expiresAt])]
      cleaned == cleanExpiredSessions(pushed, t)
  IN [cleaned EXCEPT !.lastSeen = t]

\* removeSession written sessions.splice(sessions.findIndex(match), 1): it
\* removes the first match, and the last record when nothing matches
removeSession_splice(user, token) ==
  LET n == Len(user.sessions)
      hits == {i \in 1..n : compareSync(token, user.sessions[i].tokenHash)}
      at == IF hits = {} THEN n ELSE CHOOSE i \in hits : \A j \in hits : i <= j
  IN [user EXCEPT !.sessions = SubSeq(user.sessions, 1, at - 1) \o SubSeq(user.sessions, at + 1, n)]

\* userSchema.methods.removeSession
removeSession(user, token) ==
  [user EXCEPT !.sessions =
     SelectSeq(user.sessions, LAMBDA s : ~compareSync(token, s.tokenHash))]

\* validateSession that does not look at expiresAt
validateSession_noExpiry(user, token, t) ==
  \E i \in 1..Len(user.sessions) : compareSync(token, user.sessions[i].tokenHash)

\* userSchema.methods.validateSession at time t
validateSession(user, token, t) ==
  \E i \in 1..Len(user.sessions) :
    user.sessions[i].expiresAt > t /\ compareSync(token, user.sessions[i].tokenHash)

(* --------------------------- UserService ------------------------------- *)
\* Each method first awaits connectToDatabase and then queries; it throws when
\* the database cannot be reached. A request names the methods that throw for
\* that reason while it is handled (down).

\* the unique index on email rejects a write that gives uid the email of
\* another document
EmailTaken(db, uid, email) ==
  \E u \in DOMAIN db : u # uid /\ db[u].email = email

\* findOneAndUpdate on a collection without the unique index on email
findOneAndUpdate_noEmailIndex(db, uid, email, userData, t) ==
  [ok |-> TRUE,
   db |-> [u \in DOMAIN db \cup {uid} |->
             IF u = uid
             THEN [uid |-> uid, email |-> email, name |-> userData.name,
                   provider |-> userData.provider, photoURL |-> userData.photoURL,
                   createdAt |-> IF uid \in DOMAIN db THEN db[uid].createdAt ELSE t,
                   lastSeen |-> t,
                   sessions |-> IF uid \in DOMAIN db THEN db[uid].sessions ELSE <<>>]
             ELSE db[u]]]

\* findOneAndUpdate that replaces the document it matched instead of setting
\* fields in it
findOneAndUpdate_replace(db, uid, email, userData, t) ==
  IF EmailTaken(db, uid, email)
  THEN [ok |-> FALSE, db |-> db]
  ELSE [ok |-> TRUE,
        db |-> [u \in DOMAIN db \cup {uid} |->
                  IF u = uid
                  THEN [uid |-> uid, email |-> email, name |-> userData.name,
                        provider |-> userData.provider, photoURL |-> userData.photoURL,
                        createdAt |-> t, lastSeen |-> t, sessions |-> <<>>]
                  ELSE db[u]]]

\* User.findOneAndUpdate({uid}, {...userData, email, lastSeen}, {upsert: true,
\* new: true}) at time t (an inserted document gets the schema defaults
\* createdAt and sessions): [ok, db], ok FALSE where it throws
findOneAndUpdate(db, uid, email, userData, t) ==
  IF EmailTaken(db, uid, email)
  THEN [ok |-> FALSE, db |-> db]
  ELSE IF uid \in DOMAIN db
  THEN [ok |-> TRUE,
        db |-> [db EXCEPT ![uid] =
                  [@ EXCEPT !.email = email, !.name = userData.name,
                            !.provider = userData.provider,
                            !.photoURL = userData.photoURL, !.lastSeen = t]]]
  ELSE [ok |-> TRUE,
        db |-> [u \in DOMAIN db \cup {uid} |->
                  IF u = uid
                  THEN [uid |-> uid, email |-> email, name |-> userData.name,
                        provider |-> userData.provider,
                        photoURL |-> userData.photoURL,
                        createdAt |-> t, lastSeen |-> t, sessions |-> <<>>]
                  ELSE db[u]]]

\* UserService.upsertUser at time t: [ok, db], ok FALSE where it throws
upsertUser(db, userData, t, down) ==
  IF "upsertUser" \in down
  THEN [ok |-> FALSE, db |-> db]
  ELSE findOneAndUpdate(db, userData.uid, toLowerCase(userData.email), userData, t)

\* UserService.findByUid: [ok, user], user None where it returns null
findByUid(db, uid, down) ==
  IF "findByUid" \in down THEN [ok |-> FALSE, user |-> None]
  ELSE IF uid \in DOMAIN db THEN [ok |-> TRUE, user |-> Some(db[uid])]
  ELSE [ok |-> TRUE, user |-> None]

\* addUserSession that swallows the failure of the write
addUserSession_swallow(db, uid, token, expiresAt, salt, t, down) ==
  IF "addUserSession" \in down \/ uid \notin DOMAIN db
  THEN [ok |-> TRUE, db |-> db]
  ELSE [ok |-> TRUE, db |-> [db EXCEPT ![uid] = addSession(@, token, expiresAt, salt, t)]]

\* UserService.addUserSession: throws also when the user is not found
addUserSession(db, uid, token, expiresAt, salt, t, down) ==
  IF "addUserSession" \in down \/ uid \notin DOMAIN db
  THEN [ok |-> FALSE, db |-> db]
  ELSE [ok |-> TRUE, db |-> [db EXCEPT ![uid] = addSession(@, token, expiresAt, salt, t)]]

\* UserService.removeUserSession: throws also when the user is not found
removeUserSession(db, uid, token, down) ==
  IF "removeUserSession" \in down \/ uid \notin DOMAIN db
  THEN [ok |-> FALSE, db |-> db]
  ELSE [ok |-> TRUE, db |-> [db EXCEPT ![uid] = removeSession(@, token)]]

\* UserService.validateUserSession at time t: [ok, valid]
validateUserSession(db, uid, token, t, down) ==
  IF "validateUserSession" \in down THEN [ok |-> FALSE, valid |-> FALSE]
  ELSE IF uid \notin DOMAIN db THEN [ok |-> TRUE, valid |-> FALSE]
  ELSE [ok |-> TRUE, valid |-> validateSession(db[uid], token, t)]
(* ---------------------------- responses -------------------------------- *)
NoCookie == [set |-> FALSE, value |-> None]
ClearCookie == [set |-> TRUE, value |-> None]
SetCookie(token) == [set |-> TRUE, value |-> Some(token)]

\* the user object of a response body (lastSeen only in GET /api/user/me)
UserView(user, withLastSeen) ==
  [uid |-> user.uid, email |-> user.email, name |-> user.name,
   provider |-> user.provider, photoURL |-> user.photoURL,
   lastSeen |-> IF withLastSeen THEN Some(user.lastSeen) ELSE None]

\* NextResponse.json(body, {status}) and the cookie set on it
Response(status, success, error, details, user, source, fallback, cookie) ==
  [status |-> status, success |-> success, error |-> error, details |-> details,
   user |-> user, source |-> source, fallback |-> fallback, cookie |-> cookie]

Failure(status, error, details) ==
  Response(status, FALSE, error, details, None, "none", FALSE, NoCookie)

(* ----------------------- POST /api/auth/session ------------------------ *)
\* handleSessionFallback(sessionToken): Some(response), or None for null
handleSessionFallback(db, sessionToken, t, down) ==
  LET payload == verifyJWT(sessionToken, t)
  IN IF ~IsSome(payload) THEN None
     ELSE LET v == validateUserSession(db, Get(payload).uid, sessionToken, t, down)
              f == findByUid(db, Get(payload).uid, down)
          IN IF ~v.ok THEN None
             ELSE IF ~v.valid THEN None
             ELSE IF ~f.ok THEN None
             ELSE IF ~IsSome(f.user) THEN None
             ELSE Some(Response(200, TRUE, "none", "none",
                                Some(UserView(Get(f.user), FALSE)), "none", TRUE, NoCookie))

\* POST of the session route at time t, r the random part of the session id
\* and of the salt: [db, resp, minted, stored], minted when the
\* response carries a new token, stored when a session record was saved
SessionPOST(db, idToken, cookie, t, r, down) ==
  LET firebaseResult == verifyIdToken(idToken)
      decodedToken == firebaseResult.decodedToken
      userData == [uid |-> decodedToken.uid,
                   email |-> OrElse(decodedToken.email, ""),
                   name |-> OrElse(decodedToken.name,
                                   OrElse(LocalPart(decodedToken.email), Null)),
                   provider |-> getProviderFromToken(decodedToken),
                   photoURL |-> OrElse(decodedToken.picture, Null)]
      up == upsertUser(db, userData, t, down)
      user == up.db[userData.uid]
      sessionToken == signJWT([uid |-> user.uid, email |-> user.email, name |-> user.name,
                               provider |-> user.provider, photoURL |-> user.photoURL,
                               sessionId |-> generateSessionId(t, r)], t)
      add == addUserSession(up.db, user.uid, sessionToken, getJWTExpiration(t), r, t, down)
      fallbackResponse ==
        IF IsSome(cookie) THEN handleSessionFallback(db, Get(cookie), t, down) ELSE None
  IN IF idToken.kind = "empty"
     THEN [db |-> db, minted |-> FALSE, stored |-> FALSE,
           resp |-> Failure(400, "Invalid request data", "zod errors")]
     ELSE IF ~firebaseResult.success
     THEN [db |-> db, minted |-> FALSE, stored |-> FALSE,
           resp |-> IF IsSome(fallbackResponse) THEN Get(fallbackResponse)
                    ELSE Failure(401, "Authentication failed", "upstream error message")]
     ELSE IF ~up.ok
     THEN [db |-> db, minted |-> FALSE, stored |-> FALSE,
           resp |-> Failure(500, "Internal server error", "none")]
     ELSE IF ~add.ok
     THEN [db |-> up.db, minted |-> FALSE, stored |-> FALSE,
           resp |-> Failure(500, "Internal server error", "none")]
     ELSE [db |-> add.db, minted |-> TRUE, stored |-> TRUE,
           resp |-> Response(200, TRUE, "none", "none", Some(UserView(user, FALSE)),
                             "none", FALSE, SetCookie(sessionToken))]

\* refresh-session answered by the handler of the session route, which falls
\* back to the session cookie when the ID token is rejected
RefreshPOST_asSessionPOST(db, idToken, cookie, t, r, down) ==
  SessionPOST(db, idToken, cookie, t, r, down)

\* a refresh-session route whose removal of the old session is not wrapped in
\* its own try/catch: a throw of removeUserSession ends the request with 500
RefreshPOST_removalFatal(db, idToken, cookie, t, r, down) ==
  LET firebaseResult == verifyIdToken(idToken)
      decodedToken == firebaseResult.decodedToken
      oldPayload == IF IsSome(cookie) THEN verifyJWT(Get(cookie), t) ELSE None
      removal == IF IsSome(oldPayload)
                 THEN removeUserSession(db, Get(oldPayload).uid, Get(cookie), down)
                 ELSE [ok |-> TRUE, db |-> db]
      sessionToken == signJWT([uid |-> decodedToken.uid,
                               email |-> OrElse(decodedToken.email, ""),
                               name |-> Absent, provider |-> Absent, photoURL |-> Absent,
                               sessionId |-> generateSessionId(t, r)], t)
      add == addUserSession(removal.db, decodedToken.uid, sessionToken,
                            getJWTExpiration(t), r, t, down)
      f == findByUid(add.db, decodedToken.uid, down)
  IN IF idToken.kind = "empty"
     THEN [db |-> db, minted |-> FALSE, stored |-> FALSE,
           resp |-> Failure(400, "Invalid request data", "zod errors")]
     ELSE IF ~firebaseResult.success
     THEN [db |-> db, minted |-> FALSE, stored |-> FALSE,
           resp |-> Failure(401, "Invalid ID token", "upstream error message")]
     ELSE IF ~removal.ok
     THEN [db |-> db, minted |-> FALSE, stored |-> FALSE,
           resp |-> Failure(500, "Internal server error", "none")]
     ELSE IF ~add.ok
     THEN [db |-> removal.db, minted |-> FALSE, stored |-> FALSE,
           resp |-> Failure(500, "Internal server error", "none")]
     ELSE IF ~f.ok
     THEN [db |-> add.db, minted |-> FALSE, stored |-> TRUE,
           resp |-> Failure(500, "Internal server error", "none")]
     ELSE IF ~IsSome(f.user)
     THEN [db |-> add.db, minted |-> FALSE, stored |-> TRUE,
           resp |-> Failure(404, "User not found", "none")]
     ELSE [db |-> add.db, minted |-> TRUE, stored |-> TRUE,
           resp |-> Response(200, TRUE, "none", "none", Some(UserView(Get(f.user), FALSE)),
                             "none", FALSE, SetCookie(sessionToken))]

(* -------------------- POST /api/auth/refresh-session ------------------- *)
\* POST of the refresh-session route: [db, resp, minted, stored]
RefreshPOST(db, idToken, cookie, t, r, down) ==
  LET firebaseResult == verifyIdToken(idToken)
      decodedToken == firebaseResult.decodedToken
      oldPayload == IF IsSome(cookie) THEN verifyJWT(Get(cookie), t) ELSE None
      \* removal of the old session; a throw is caught and logged
      db1 == IF IsSome(oldPayload)
             THEN removeUserSession(db, Get(oldPayload).uid, Get(cookie), down).db
             ELSE db
      sessionToken == signJWT([uid |-> decodedToken.uid,
                               email |-> OrElse(decodedToken.email, ""),
                               name |-> Absent, provider |-> Absent, photoURL |-> Absent,
                               sessionId |-> generateSessionId(t, r)], t)
      add == addUserSession(db1, decodedToken.uid, sessionToken, getJWTExpiration(t), r, t,
                            down)
      f == findByUid(add.db, decodedToken.uid, down)
  IN IF idToken.kind = "empty"
     THEN [db |-> db, minted |-> FALSE, stored |-> FALSE,
           resp |-> Failure(400, "Invalid request data", "zod errors")]
     ELSE IF ~firebaseResult.success
     THEN [db |-> db, minted |-> FALSE, stored |-> FALSE,
           resp |-> Failure(401, "Invalid ID token", "upstream error message")]
     ELSE IF ~add.ok
     THEN [db |-> db1, minted |-> FALSE, stored |-> FALSE,
           resp |-> Failure(500, "Internal server error", "none")]
     ELSE IF ~f.ok
     THEN [db |-> add.db, minted |-> FALSE, stored |-> TRUE,
           resp |-> Failure(500, "Internal server error", "none")]
     ELSE IF ~IsSome(f.user)
     THEN [db |-> add.db, minted |-> FALSE, stored |-> TRUE,
           resp |-> Failure(404, "User not found", "none")]
     ELSE [db |-> add.db, minted |-> TRUE, stored |-> TRUE,
           resp |-> Response(200, TRUE, "none", "none", Some(UserView(Get(f.user), FALSE)),
                             "none", FALSE, SetCookie(sessionToken))]

(* --------------------------- GET /api/user/me -------------------------- *)
\* the first part of GET: the Firebase ID token of the Authorization header.
\* Some(response) where the handler returns from it, None where it goes on to
\* the session cookie
UserMeBearerPath(db, bearer, down) ==
  LET idToken == IF IsSome(bearer) /\ Get(bearer).kind # "empty" THEN bearer ELSE None
      firebaseResult == verifyIdToken(Get(idToken))
      f == findByUid(db, firebaseResult.decodedToken.uid, down)
  IN IF ~IsSome(idToken) THEN None
     ELSE IF ~firebaseResult.success THEN None
     ELSE IF ~f.ok THEN Some(Failure(500, "Internal server error", "none"))
     ELSE IF ~IsSome(f.user) THEN None
     ELSE Some(Response(200, TRUE, "none", "none", Some(UserView(Get(f.user), TRUE)),
                        "firebase", FALSE, NoCookie))

\* the second part of GET: the app_session cookie
UserMeCookiePath(db, cookie, t, down) ==
  LET payload == verifyJWT(Get(cookie), t)
      v == validateUserSession(db, Get(payload).uid, Get(cookie), t, down)
      f == findByUid(db, Get(payload).uid, down)
  IN IF ~IsSome(cookie) THEN Failure(401, "No authentication found", "none")
     ELSE IF ~IsSome(payload) THEN Failure(401, "Invalid session", "none")
     ELSE IF ~v.ok THEN Failure(500, "Internal server error", "none")
     ELSE IF ~v.valid THEN Failure(401, "Session expired or invalid", "none")
     ELSE IF ~f.ok THEN Failure(500, "Internal server error", "none")
     ELSE IF ~IsSome(f.user) THEN Failure(404, "User not found", "none")
     ELSE Response(200, TRUE, "none", "none", Some(UserView(Get(f.user), TRUE)),
                   "database", FALSE, NoCookie)

\* GET that answers 401 when the ID token it was given fails, without trying
\* the cookie
UserMeGET_noFallThrough(db, bearer, cookie, t, down) ==
  LET first == UserMeBearerPath(db, bearer, down)
  IN IF IsSome(first) THEN Get(first)
     ELSE IF IsSome(bearer) THEN Failure(401, "No authentication found", "none")
     ELSE UserMeCookiePath(db, cookie, t, down)

\* GET of the user route; bearer is the token of the Authorization header, if
\* any. It writes nothing to the database.
UserMeGET(db, bearer, cookie, t, down) ==
  LET first == UserMeBearerPath(db, bearer, down)
  IN IF IsSome(first) THEN Get(first) ELSE UserMeCookiePath(db, cookie, t, down)

(* -------------------------- POST /api/auth/logout ---------------------- *)
\* POST of the logout route: [db, resp, removed]; removed tells whether
\* removeUserSession ran and did not throw
LogoutPOST(db, cookie, t, down) ==
  LET payload == IF IsSome(cookie) THEN verifyJWT(Get(cookie), t) ELSE None
      rm == removeUserSession(db, Get(payload).uid, Get(cookie), down)
  IN [db |-> IF IsSome(payload) THEN rm.db ELSE db,
      removed |-> IsSome(payload) /\ rm.ok,
      resp |-> Response(200, TRUE, "none", "none", None, "none", FALSE,
                        ClearCookie)]
(* ------------------------------ state ---------------------------------- *)
VARIABLES
  users,      \* the users collection: uid -> document, for the uids that have one
  now,        \* the clock
  nextId,     \* the next random value (session id, salt)
  issued,     \* the session tokens clients received in a Set-Cookie
  req,        \* the request being answered (op "none" between requests)
  resp,       \* its response
  revoked,    \* history: tokens whose logout ran removeUserSession without a throw
  loggedOut,  \* history: tokens sent with a logout that answered success
  inFlight,   \* the createSession calls that run concurrently, each with its position
  docVersion, \* the __v of each document, read and written by those calls
  verified,   \* the last token handed to the two verify functions, and their answers
  boot,       \* process.env, and what validateEnv made of it when the modules loaded
  passwords,  \* the password of each account at the identity provider
  outbox,     \* the mails the SMTP server accepted
  resetCall,  \* the last password-reset request or confirmation, and its answer
  removal,    \* the removeUserSession call that runs next to the createSession calls
  nav         \* the browser: the page it is on, its cookie and the AuthProvider state

vars == <<users, now, nextId, issued, req, resp, revoked, loggedOut, inFlight, docVersion,
          verified, boot,
                 passwords, outbox, resetCall, removal, nav>>

\* what the requests that are handled one at a time leave alone
apart == <<inFlight, docVersion, verified, boot,
                 passwords, outbox, resetCall, removal, nav>>

Uid2(uid) == IF uid = U1 THEN U2 ELSE U1

\* a token whose uid claim was changed after signing
Tampered(token) == [token EXCEPT !.payload.uid = Uid2(@)]

\* the app_session cookie of a request: none, a token a client holds, or one
\* made from a token a client holds
Cookies ==
  {None} \cup {Some(tk) : tk \in issued}
         \cup (IF issued = {} THEN {} ELSE {Some(Tampered(CHOOSE tk \in issued : TRUE))})

\* the UserService methods that throw during one request: none, or one of those
\* the route calls
Downs(calls) == {{}} \cup {{c} : c \in calls}

Request(op, idToken, cookie, down) ==
  [op |-> op, idToken |-> idToken, cookie |-> cookie, down |-> down]

NoRequest == Request("none", None, None, {})
NoResponse == Failure(0, "none", "none")
Idle == req.op = "none"

\* the concurrent calls, and a call that has not started
CallIds == 1..MaxCalls
NoCall == [pc |-> "idle", token |-> None, doc |-> None, version |-> 0, status |-> 0,
           seen |-> {}]

\* no page is open
NoNav == [stage |-> "closed", path |-> <<>>, redirect |-> None, firebaseUser |-> FALSE,
          user |-> FALSE, loading |-> TRUE, cookie |-> None]

\* removeUserSession has not been called
NoRemoval == [pc |-> "idle", token |-> None, doc |-> None, version |-> 0, status |-> 0]

\* the password every account has at first, and the one a reset sets
OldPassword == "old-password"
NewPassword == "new-password"

\* no password-reset call has been made
NoResetCall == [op |-> "none", email |-> Absent, token |-> None, smtp |-> TRUE, down |-> {},
                at |-> 0, status |-> 0, success |-> FALSE, message |-> "none",
                error |-> "none"]

\* the modules have not loaded yet
NoBoot == [penv |-> None, cachedEnv |-> None, threw |-> FALSE]

\* no token has been handed to the verify functions
NoVerify == [token |-> None, at |-> 0, session |-> None, reset |-> None]

Init ==
  /\ users = << >>
  /\ now = 0
  /\ nextId = 1
  /\ issued = {}
  /\ req = NoRequest
  /\ resp = NoResponse
  /\ revoked = {}
  /\ loggedOut = {}
  /\ inFlight = [c \in CallIds |-> NoCall]
  /\ docVersion = << >>
  /\ verified = NoVerify
  /\ boot = NoBoot
  /\ passwords = [u \in {U1, U2} |-> OldPassword]
  /\ outbox = {}
  /\ resetCall = NoResetCall
  /\ removal = NoRemoval
  /\ nav = NoNav

\* the effects of a createSession or refreshSession request and its outcome out
Mint(request, out) ==
  /\ Idle
  /\ out.stored => nextId <= MaxTokens
  /\ users' = out.db
  /\ resp' = out.resp
  /\ req' = request
  /\ nextId' = IF out.stored THEN nextId + 1 ELSE nextId
  /\ issued' = IF out.minted THEN issued \cup {Get(out.resp.cookie.value)} ELSE issued
  /\ UNCHANGED <<now, revoked, loggedOut, apart>>

\* POST /api/auth/session is handled
CreateSession ==
  \E idToken \in IdTokens, cookie \in Cookies,
     down \in Downs({"upsertUser", "addUserSession", "validateUserSession", "findByUid"}) :
    Mint(Request("createSession", Some(idToken), cookie, down),
         SessionPOST(users, idToken, cookie, now, nextId, down))

\* POST /api/auth/refresh-session is handled
RefreshSession ==
  \E idToken \in IdTokens, cookie \in Cookies,
     down \in Downs({"removeUserSession", "addUserSession", "findByUid"}) :
    Mint(Request("refreshSession", Some(idToken), cookie, down),
         RefreshPOST(users, idToken, cookie, now, nextId, down))

\* GET /api/user/me is handled
ValidateSession ==
  \E bearer \in {None} \cup {Some(i) : i \in IdTokens}, cookie \in Cookies,
     down \in Downs({"validateUserSession", "findByUid"}) :
    /\ Idle
    /\ resp' = UserMeGET(users, bearer, cookie, now, down)
    /\ req' = Request("validateSession", bearer, cookie, down)
    /\ UNCHANGED <<users, now, nextId, issued, revoked, loggedOut, apart>>

\* the effects of a logout request and its outcome out
Revoke(cookie, down, out) ==
  /\ Idle
  /\ users' = out.db
  /\ resp' = out.resp
  /\ req' = Request("logout", None, cookie, down)
  /\ revoked' = IF out.removed THEN revoked \cup {Get(cookie)} ELSE revoked
  /\ loggedOut' = IF IsSome(cookie) /\ Get(cookie) \in issued /\ out.resp.success
                   THEN loggedOut \cup {Get(cookie)} ELSE loggedOut
  /\ UNCHANGED <<now, nextId, issued, apart>>

\* POST /api/auth/logout is handled
Logout ==
  \E cookie \in Cookies, down \in Downs({"removeUserSession"}) :
    Revoke(cookie, down, LogoutPOST(users, cookie, now, down))

\* the response has been sent; the server waits for the next request
Respond ==
  /\ ~Idle
  /\ req' = NoRequest
  /\ resp' = NoResponse
  /\ UNCHANGED <<users, now, nextId, issued, revoked, loggedOut, apart>>

\* time passes
Tick ==
  /\ Idle
  /\ now < MaxTime
  /\ now' = now + 1
  /\ UNCHANGED <<users, nextId, issued, req, resp, revoked, loggedOut, apart>>

Next ==
  \/ CreateSession
  \/ RefreshSession
  \/ ValidateSession
  \/ Logout
  \/ Respond
  \/ Tick

Spec == Init /\ [][Next]_vars
(* ------------------ createSession calls run concurrently --------------- *)
\* Each await of the route is a point where another call can run. The calls
\* meet in the database at three operations: findOneAndUpdate of upsertUser,
\* findOne of addUserSession, and the updateOne that document.save() sends.

\* document.save() that sends its update without the version of the document
\* it loaded
save_lastWriteWins(db, ver, uid, doc, v) ==
  IF uid \in DOMAIN db
  THEN [ok |-> TRUE,
        db |-> [db EXCEPT ![uid].sessions = doc.sessions, ![uid].lastSeen = doc.lastSeen],
        ver |-> [ver EXCEPT ![uid] = @ + 1]]
  ELSE [ok |-> FALSE, db |-> db, ver |-> ver]

\* document.save() in addSession, of a document loaded at version v: sessions
\* was assigned an array (cleanExpiredSessions), so Mongoose sends
\* updateOne({_id, __v: v}, {$set: {sessions, lastSeen}, $inc: {__v: 1}}) and
\* throws VersionError when no document matches
save(db, ver, uid, doc, v) ==
  IF uid \in DOMAIN db /\ ver[uid] = v
  THEN [ok |-> TRUE,
        db |-> [db EXCEPT ![uid].sessions = doc.sessions, ![uid].lastSeen = doc.lastSeen],
        ver |-> [ver EXCEPT ![uid] = v + 1]]
  ELSE [ok |-> FALSE, db |-> db, ver |-> ver]

\* userData of the session route, from the decoded ID token
userDataOf(decodedToken) ==
  [uid |-> decodedToken.uid,
   email |-> OrElse(decodedToken.email, ""),
   name |-> OrElse(decodedToken.name, OrElse(LocalPart(decodedToken.email), Null)),
   provider |-> getProviderFromToken(decodedToken),
   photoURL |-> OrElse(decodedToken.picture, Null)]

\* the token the session route signs for the upserted user
sessionTokenOf(user, t, r) ==
  signJWT([uid |-> user.uid, email |-> user.email, name |-> user.name,
           provider |-> user.provider, photoURL |-> user.photoURL,
           sessionId |-> generateSessionId(t, r)], t)

\* the state of call c after upsertUser answered up and the token was signed
Started(c, uid, up) ==
  /\ up.ok
  /\ users' = up.db
  /\ docVersion' = IF uid \in DOMAIN docVersion THEN docVersion
                   ELSE [u \in DOMAIN docVersion \cup {uid} |->
                           IF u = uid THEN 0 ELSE docVersion[u]]
  /\ inFlight' = [inFlight EXCEPT ![c] =
                 [NoCall EXCEPT !.pc = "upserted",
                                !.token = Some(sessionTokenOf(up.db[uid], now, nextId)),
                                !.seen = {d \in CallIds :
                                            inFlight[d].pc \in {"upserted", "found"}}]]
  /\ nextId' = nextId + 1

\* call c: the ID token verifies, upsertUser, the session token is signed
ConcStart(c) ==
  \E idToken \in {i \in IdTokens : verifyIdToken(i).success} :
    /\ Idle
    /\ inFlight[c].pc = "idle"
    /\ Started(c, idToken.uid, upsertUser(users, userDataOf(idToken), now, {}))
    /\ UNCHANGED <<now, issued, req, resp, revoked, loggedOut, verified, boot,
                 passwords, outbox, resetCall, removal, nav>>

\* call c: User.findOne({uid}) of addUserSession loads the document
ConcFind(c) ==
  /\ inFlight[c].pc = "upserted"
  /\ inFlight' = [inFlight EXCEPT ![c].pc = "found",
                            ![c].doc = Some(users[Get(inFlight[c].token).payload.uid]),
                            ![c].version = docVersion[Get(inFlight[c].token).payload.uid]]
  /\ UNCHANGED <<users, now, nextId, issued, req, resp, revoked, loggedOut, docVersion,
                 verified, boot,
                 passwords, outbox, resetCall, removal, nav>>

\* the state after call c's save answered saved
Saved(c, token, saved) ==
  /\ users' = saved.db
  /\ docVersion' = saved.ver
  /\ inFlight' = [inFlight EXCEPT ![c].pc = "done",
                            ![c].status = IF saved.ok THEN 200 ELSE 500]
  /\ issued' = IF saved.ok THEN issued \cup {token} ELSE issued

\* call c: addSession pushes to the document it loaded, sweeps it and saves it;
\* the route answers with the cookie, or 500 when save throws
ConcSave(c) ==
  /\ inFlight[c].pc = "found"
  /\ Saved(c, Get(inFlight[c].token),
           save(users, docVersion, Get(inFlight[c].token).payload.uid,
                addSession(Get(inFlight[c].doc), Get(inFlight[c].token),
                           Get(inFlight[c].token).payload.exp,
                           Get(inFlight[c].token).payload.sessionId.r, now),
                inFlight[c].version))
  /\ UNCHANGED <<now, nextId, req, resp, revoked, loggedOut, verified, boot,
                 passwords, outbox, resetCall, removal, nav>>

NextConcurrent ==
  \/ \E c \in CallIds : ConcStart(c)
  \/ \E c \in CallIds : ConcFind(c)
  \/ \E c \in CallIds : ConcSave(c)
  \/ Tick

SpecConcurrent == Init /\ [][NextConcurrent]_vars

(* ------------- a logout runs next to the createSession calls ----------- *)
\* removeUserSession of an issued token: User.findOne({uid}) loads the document
ConcRemoveFind ==
  \E tk \in issued :
    /\ removal.pc = "idle"
    /\ tk.payload.uid \in DOMAIN users
    /\ removal' = [pc |-> "found", token |-> Some(tk),
                   doc |-> Some(users[tk.payload.uid]),
                   version |-> docVersion[tk.payload.uid], status |-> 0]
    /\ UNCHANGED <<users, now, nextId, issued, req, resp, revoked, loggedOut, inFlight,
                   docVersion, verified, boot, passwords, outbox, resetCall, nav>>

\* the state after the save of removeSession answered saved
Removed(token, saved) ==
  /\ users' = saved.db
  /\ docVersion' = saved.ver
  /\ removal' = [removal EXCEPT !.pc = "done", !.status = IF saved.ok THEN 200 ELSE 500]
  /\ revoked' = IF saved.ok THEN revoked \cup {token} ELSE revoked

\* removeSession filters the sessions of the document it loaded and saves it;
\* sessions was assigned an array, so the save carries the version it loaded,
\* and lastSeen, which it did not modify, is not written
ConcRemoveSave ==
  /\ removal.pc = "found"
  /\ Removed(Get(removal.token),
             save(users, docVersion, Get(removal.token).payload.uid,
                  [removeSession(Get(removal.doc), Get(removal.token))
                     EXCEPT !.lastSeen = users[Get(removal.token).payload.uid].lastSeen],
                  removal.version))
  /\ UNCHANGED <<now, nextId, issued, req, resp, loggedOut, inFlight, verified, boot,
                 passwords, outbox, resetCall, nav>>

NextRace ==
  \/ \E c \in CallIds : ConcStart(c)
  \/ \E c \in CallIds : ConcFind(c)
  \/ \E c \in CallIds : ConcSave(c)
  \/ ConcRemoveFind
  \/ ConcRemoveSave
  \/ Tick

SpecRace == Init /\ [][NextRace]_vars

(* ----------------------- upsertUser calls alone ------------------------ *)
\* the identities upsertUser is called with: two uids, and emails of which two
\* differ only in case
UpsertInputs ==
  [uid : {U1, U2}, email : {"A@x", "a@x", "b@x"}, name : {"A", Null},
   provider : {"email"}, photoURL : {Null}]

\* UserService.upsertUser is called; the caller answers 500 when it throws
UpsertUserCall ==
  \E userData \in UpsertInputs :
    LET up == upsertUser(users, userData, now, {})
    IN /\ Idle
       /\ users' = up.db
       /\ resp' = IF up.ok
                  THEN Response(200, TRUE, "none", "none",
                                Some(UserView(up.db[userData.uid], FALSE)), "none", FALSE,
                                NoCookie)
                  ELSE Failure(500, "Internal server error", "none")
       /\ UNCHANGED <<now, nextId, issued, req, revoked, loggedOut, apart>>

NextUpsert ==
  \/ UpsertUserCall
  \/ Tick

SpecUpsert == Init /\ [][NextUpsert]_vars

(* ------------------- the two verify functions alone -------------------- *)
\* a key the server does not hold, and claims values the server does not sign
OtherKey == "other-key"
OtherIssuer == "other-issuer"
OtherAudience == "other-audience"
OtherType == "email_verification"

\* the _id of the user a reset token is made for
UserId == "64b7f0c2a1d3e5f7a9b1c3d5"

\* a token with the payload p and a signature made with key
Signed(key, p) == [payload |-> p, sig |-> HMAC(key, p)]

\* the payload p without its claim k
Without(p, k) == [c \in DOMAIN p \ {k} |-> p[c]]

\* tokens made from the token tk that the server did not sign as they are: a
\* signature of another key, a payload changed after signing, and tokens under
\* the server's key with another or no issuer, audience or type
Variants(tk) ==
  {Signed(OtherKey, tk.payload), [tk EXCEPT !.payload.email = "b@x"]}
  \cup (IF "iss" \in DOMAIN tk.payload
        THEN {Signed(JWT_SECRET, [tk.payload EXCEPT !.iss = OtherIssuer]),
              Signed(JWT_SECRET, [tk.payload EXCEPT !.aud = OtherAudience]),
              Signed(JWT_SECRET, Without(tk.payload, "iss")),
              Signed(JWT_SECRET, Without(tk.payload, "aud"))}
        ELSE {})
  \cup (IF "type" \in DOMAIN tk.payload
        THEN {Signed(JWT_SECRET, [tk.payload EXCEPT !.type = OtherType]),
              Signed(JWT_SECRET, Without(tk.payload, "type"))}
        ELSE {})

\* the tokens that can be handed to a verify function: those the server signed
\* and the tokens made from them
Candidates == issued \cup UNION {Variants(tk) : tk \in issued}

\* signJWT signs a session token
CodecSignSession ==
  /\ Idle
  /\ nextId <= MaxTokens
  /\ issued' = issued \cup
       {signJWT([uid |-> U1, email |-> "a@x", name |-> "A", provider |-> "email",
                 photoURL |-> Null, sessionId |-> generateSessionId(now, nextId)], now)}
  /\ nextId' = nextId + 1
  /\ UNCHANGED <<users, now, req, resp, revoked, loggedOut, apart>>

\* generateResetToken signs a reset token
CodecSignReset ==
  /\ Idle
  /\ nextId <= MaxTokens
  /\ issued' = issued \cup {generateResetToken(UserId, "a@x", now)}
  /\ nextId' = nextId + 1
  /\ UNCHANGED <<users, now, req, resp, revoked, loggedOut, apart>>

\* a token is handed to verifyJWT and to verifyResetToken
CodecVerify ==
  \E tk \in Candidates :
    /\ verified' = [token |-> Some(tk), at |-> now,
                    session |-> verifyJWT(tk, now),
                    reset |-> verifyResetToken(tk, now)]
    /\ UNCHANGED <<users, now, nextId, issued, req, resp, revoked, loggedOut, inFlight,
                   docVersion, boot,
                 passwords, outbox, resetCall, removal, nav>>

NextCodec ==
  \/ CodecSignSession
  \/ CodecSignReset
  \/ CodecVerify
  \/ Tick

SpecCodec == Init /\ [][NextCodec]_vars

(* ----------------------- environment validation ----------------------- *)
\* the least length envSchema accepts for JWT_SECRET
MinSecretLen == 32

\* the key getDefaultEnv falls back to
DefaultSecret == "development-jwt-secret-at-least-32-characters-long-for-build"

\* keys an operator may set: of 12, of 31 and of 32 characters
ShortSecret == "short-secret"
Secret31 == "0123456789abcdef0123456789abcde"
Secret32 == "0123456789abcdef0123456789abcdef"

\* s.length
Length(s) == Len(Chars(s))

\* process.env: the variables validateEnv reads; MONGODB_URI stands for the
\* required variables other than JWT_SECRET
ProcessEnvs ==
  [NODE_ENV : {"production", "development", Absent},
   VERCEL : {Absent, "1"},
   RAILWAY_ENVIRONMENT : {Absent, "production"},
   JWT_SECRET : {Absent, "", ShortSecret, Secret31, Secret32},
   MONGODB_URI : {Absent, "mongodb://db"}]

\* NODE_ENV === "production" && !VERCEL && !RAILWAY_ENVIRONMENT
isBuildTime(penv) ==
  /\ penv.NODE_ENV = "production"
  /\ penv.VERCEL \in {Absent, ""}
  /\ penv.RAILWAY_ENVIRONMENT \in {Absent, ""}

\* each variable of process.env, or its placeholder when it is unset or empty
getDefaultEnv(penv) ==
  [MONGODB_URI |-> OrElse(penv.MONGODB_URI, "mongodb://localhost:27017/firebase-auth-app"),
   JWT_SECRET |-> OrElse(penv.JWT_SECRET, DefaultSecret)]

\* envSchema.parse(process.env) does not throw: MONGODB_URI is a string of at
\* least 1 character and JWT_SECRET one of at least MinSecretLen
envSchemaAccepts(penv) ==
  /\ penv.MONGODB_URI # Absent
  /\ penv.MONGODB_URI # ""
  /\ penv.JWT_SECRET # Absent
  /\ Length(penv.JWT_SECRET) >= MinSecretLen

\* validateEnv() with nothing cached: the Env it caches and returns, or a throw
validateEnv(penv) ==
  IF isBuildTime(penv)
  THEN [penv |-> Some(penv), cachedEnv |-> Some(getDefaultEnv(penv)), threw |-> FALSE]
  ELSE IF envSchemaAccepts(penv)
  THEN [penv |-> Some(penv),
        cachedEnv |-> Some([MONGODB_URI |-> penv.MONGODB_URI,
                            JWT_SECRET |-> penv.JWT_SECRET]),
        threw |-> FALSE]
  ELSE IF penv.NODE_ENV = "production"
  THEN [penv |-> Some(penv), cachedEnv |-> None, threw |-> TRUE]
  ELSE [penv |-> Some(penv), cachedEnv |-> Some(getDefaultEnv(penv)), threw |-> FALSE]

\* the server process starts with some environment and loads lib/jwt, whose
\* const JWT_SECRET = env.JWT_SECRET runs validateEnv
LoadEnv ==
  \E penv \in ProcessEnvs :
    /\ boot = NoBoot
    /\ boot' = validateEnv(penv)
    /\ UNCHANGED <<users, now, nextId, issued, req, resp, revoked, loggedOut, inFlight,
                   docVersion, verified, passwords, outbox, resetCall, removal, nav>>

\* the modules loaded without a throw and JWT_SECRET holds the cached key
Loaded == IsSome(boot.cachedEnv)

\* a session token is signed with the key of the loaded environment
EnvSignSession == Loaded /\ CodecSignSession

\* a reset token is signed with the key of the loaded environment
EnvSignReset == Loaded /\ CodecSignReset

\* a token is verified with the key of the loaded environment
EnvVerify == Loaded /\ CodecVerify

NextEnv ==
  \/ LoadEnv
  \/ EnvSignSession
  \/ EnvSignReset
  \/ EnvVerify
  \/ Tick

SpecEnv == Init /\ [][NextEnv]_vars

(* ------------------- handlers wrapped by requireAuth ------------------- *)
\* getAuthenticatedUserWithValidation(request): Some(user), or None for null;
\* its catch turns every throw into null
getAuthenticatedUserWithValidation(db, cookie, t, down) ==
  LET payload == verifyJWT(Get(cookie), t)
      v == validateUserSession(db, Get(payload).uid, Get(cookie), t, down)
      f == findByUid(db, Get(payload).uid, down)
  IN IF ~IsSome(cookie) THEN None
     ELSE IF ~IsSome(payload) THEN None
     ELSE IF ~v.ok THEN None
     ELSE IF ~v.valid THEN None
     ELSE IF ~f.ok THEN None
     ELSE IF ~IsSome(f.user) THEN None
     ELSE Some(UserView(Get(f.user), FALSE))

\* the response of requireAuth for the user it was given: 401, or the
\* handler's, which answers with the user
guarded(user) ==
  IF user = None THEN Failure(401, "Authentication required", "none")
  ELSE Response(200, TRUE, "none", "none", user, "none", FALSE, NoCookie)

\* requireAuth(handler)(request)
requireAuth(db, cookie, t, down) ==
  guarded(getAuthenticatedUserWithValidation(db, cookie, t, down))

\* a route wrapped by requireAuth is called
GuardedCall ==
  \E cookie \in Cookies, down \in Downs({"validateUserSession", "findByUid"}) :
    /\ Idle
    /\ resp' = requireAuth(users, cookie, now, down)
    /\ req' = Request("requireAuth", None, cookie, down)
    /\ UNCHANGED <<users, now, nextId, issued, revoked, loggedOut, apart>>

NextGuarded ==
  \/ CreateSession
  \/ ValidateSession
  \/ GuardedCall
  \/ Respond
  \/ Tick

SpecGuarded == Init /\ [][NextGuarded]_vars

(* --------------------------- password reset ---------------------------- *)
\* user._id.toString() of the document of uid
ObjectId(uid) == IF uid = U1 THEN UserId ELSE "64b7f0c2a1d3e5f7a9b1c3d6"

\* User.findOne({email}): Some(document), or None for null (email is unique)
findOneByEmail(db, email) ==
  IF \E u \in DOMAIN db : db[u].email = email
  THEN Some(db[CHOOSE u \in DOMAIN db : db[u].email = email])
  ELSE None

\* UserService.findByEmail(email): [ok, user], ok FALSE where it throws
findByEmail(db, email, down) ==
  IF "findByEmail" \in down THEN [ok |-> FALSE, user |-> None]
  ELSE [ok |-> TRUE, user |-> findOneByEmail(db, toLowerCase(email))]

\* EmailService.sendEmail: true when transporter.sendMail delivered the mail,
\* false when it threw
sendEmail(box, mail, smtp) ==
  [sent |-> smtp, outbox |-> IF smtp THEN box \cup {mail} ELSE box]

\* EmailService.sendPasswordResetEmail(email, resetToken, userName)
sendPasswordResetEmail(box, email, resetToken, userName, smtp) ==
  sendEmail(box, [to |-> email, subject |-> "Reset Your Password",
                  token |-> Some(resetToken), name |-> userName], smtp)

\* EmailService.sendPasswordResetSuccessEmail(email, userName)
sendPasswordResetSuccessEmail(box, email, userName, smtp) ==
  sendEmail(box, [to |-> email, subject |-> "Password Reset Successful",
                  token |-> None, name |-> userName], smtp)

\* what a ResetTokenService call returns, {success, message}, with the
\* passwords and the mails it leaves
Outcome(success, message, pw, box) ==
  [success |-> success, message |-> message, passwords |-> pw, outbox |-> box]

\* createResetRequest after sendPasswordResetEmail answered
resetMailed(pw, sending) ==
  IF ~sending.sent
  THEN Outcome(FALSE, "Failed to send reset email. Please try again.", pw, sending.outbox)
  ELSE Outcome(TRUE, "Password reset email sent successfully", pw, sending.outbox)

\* createResetRequest after findByEmail answered
resetRequested(found, pw, box, t, smtp) ==
  IF ~found.ok
  THEN Outcome(FALSE, "An error occurred. Please try again.", pw, box)
  ELSE IF found.user = None
  THEN Outcome(FALSE, "No account found with this email address", pw, box)
  ELSE resetMailed(pw, sendPasswordResetEmail(
         box, Get(found.user).email,
         generateResetToken(ObjectId(Get(found.user).uid), Get(found.user).email, t),
         OrElse(Get(found.user).name, Get(found.user).email), smtp))

\* ResetTokenService.createResetRequest(email) at time t
createResetRequest(db, pw, box, email, t, smtp, down) ==
  resetRequested(findByEmail(db, email, down), pw, box, t, smtp)

\* resetPasswordWithToken that reports the failure of the confirmation mail
passwordUpdate_mailDecides(user, pw, box, newPassword, smtp, down) ==
  IF "updateUser" \in down
  THEN Outcome(FALSE, "Failed to reset password. Please try again.", pw, box)
  ELSE IF ~smtp
  THEN Outcome(FALSE, "Failed to reset password. Please try again.",
               [pw EXCEPT ![user.uid] = newPassword], box)
  ELSE Outcome(TRUE, "Password reset successfully",
               [pw EXCEPT ![user.uid] = newPassword],
               sendPasswordResetSuccessEmail(box, user.email,
                                             OrElse(user.name, user.email), smtp).outbox)

\* resetPasswordWithToken from adminAuth.updateUser(user.uid, {password}) on:
\* a throw of updateUser is caught; the answer of the confirmation mail is
\* not looked at
passwordUpdate(user, pw, box, newPassword, smtp, down) ==
  IF "updateUser" \in down
  THEN Outcome(FALSE, "Failed to reset password. Please try again.", pw, box)
  ELSE Outcome(TRUE, "Password reset successfully",
               [pw EXCEPT ![user.uid] = newPassword],
               sendPasswordResetSuccessEmail(box, user.email,
                                             OrElse(user.name, user.email), smtp).outbox)

\* resetPasswordWithToken after findByEmail answered
resetConfirmed(found, pw, box, newPassword, smtp, down) ==
  IF ~found.ok
  THEN Outcome(FALSE, "Failed to reset password. Please try again.", pw, box)
  ELSE IF found.user = None
  THEN Outcome(FALSE, "User not found", pw, box)
  ELSE passwordUpdate(Get(found.user), pw, box, newPassword, smtp, down)

\* ResetTokenService.resetPasswordWithToken(token, newPassword) at time t
resetPasswordWithToken(db, pw, box, token, newPassword, t, smtp, down) ==
  IF verifyResetToken(token, t) = None
  THEN Outcome(FALSE, "Invalid or expired reset token", pw, box)
  ELSE resetConfirmed(findByEmail(db, Get(verifyResetToken(token, t)).email, down),
                      pw, box, newPassword, smtp, down)

\* the emails a reset is requested for (each passes resetPasswordSchema)
ResetEmails == {"A@x", "a@x", "b@x"}

\* the reset tokens that arrived in a mail
Mailed == {Get(m.token) : m \in {x \in outbox : IsSome(x.token)}}

\* the tokens a confirmation is sent with: one from a mail, or one an
\* outsider signed
ResetTokens ==
  Mailed \cup {Signed(OtherKey, generateResetToken(UserId, "a@x", now).payload)}

\* POST and PUT /api/auth/reset-password answer 200 {success, message} or
\* 400 {success: false, error: result.message}; the call is recorded
ResetAnswered(op, email, token, smtp, down, out) ==
  /\ nextId <= MaxTokens
  /\ nextId' = nextId + 1
  /\ passwords' = out.passwords
  /\ outbox' = out.outbox
  /\ resetCall' = [op |-> op, email |-> email, token |-> token, smtp |-> smtp,
                   down |-> down, at |-> now,
                   status |-> IF out.success THEN 200 ELSE 400,
                   success |-> out.success,
                   message |-> IF out.success THEN out.message ELSE "none",
                   error |-> IF out.success THEN "none" ELSE out.message]
  /\ UNCHANGED <<users, now, issued, req, resp, revoked, loggedOut, inFlight, docVersion,
                 verified, boot, removal, nav>>

\* the accounts that sign in before or between the resets
ResetAccounts ==
  {[uid |-> U1, email |-> "A@x", name |-> "A", provider |-> "email", photoURL |-> Null],
   [uid |-> U2, email |-> "b@x", name |-> Null, provider |-> "email", photoURL |-> Null]}

\* an account signs in: UserService.upsertUser stores its document
RegisterAccount ==
  \E userData \in ResetAccounts :
    /\ Idle
    /\ users' = upsertUser(users, userData, now, {}).db
    /\ UNCHANGED <<now, nextId, issued, req, resp, revoked, loggedOut, apart>>

\* POST /api/auth/reset-password
RequestReset ==
  \E email \in ResetEmails, smtp \in BOOLEAN, down \in Downs({"findByEmail"}) :
    /\ Idle
    /\ ResetAnswered("request", email, None, smtp, down,
                     createResetRequest(users, passwords, outbox, email, now, smtp, down))

\* PUT /api/auth/reset-password
ConfirmReset ==
  \E token \in ResetTokens, smtp \in BOOLEAN, down \in Downs({"findByEmail", "updateUser"}) :
    /\ Idle
    /\ ResetAnswered("confirm", Absent, Some(token), smtp, down,
                     resetPasswordWithToken(users, passwords, outbox, token, NewPassword,
                                            now, smtp, down))

NextReset ==
  \/ RegisterAccount
  \/ RequestReset
  \/ ConfirmReset
  \/ Tick

SpecReset == Init /\ [][NextReset]_vars

(* ------------------------- client navigation --------------------------- *)
\* A pathname is the sequence of its segments; startsWith of two pathnames made
\* of whole segments is the prefix relation on them.
Home == <<>>
Login == <<"auth", "login">>
Signup == <<"auth", "signup">>
ResetPage == <<"auth", "reset-password">>
AboutMe == <<"about-me">>
Dashboard == <<"dashboard">>

protectedRoutes == {AboutMe, Dashboard, <<"profile">>}
guestOnlyRoutes == {Login, Signup, ResetPage}

startsWith(pathname, route) ==
  Len(route) <= Len(pathname) /\ SubSeq(pathname, 1, Len(route)) = route

\* the app_session cookie of the browser, as value.split("."): none, an empty
\* value, a value of three parts, a value of one part
NavCookies == {None, Some(<<"">>), Some(<<"h", "p", "s">>), Some(<<"x">>)}

\* sessionCookie?.value is truthy
hasValue(cookie) == IsSome(cookie) /\ Get(cookie) # <<"">>

\* the URL of a redirect: the pathname and the redirect query parameter
Url(path, redirect) == [path |-> path, redirect |-> redirect]

\* middleware(request): Some(url) for NextResponse.redirect(url), None for
\* NextResponse.next()
middleware(pathname, cookie) ==
  IF \E route \in protectedRoutes : startsWith(pathname, route)
  THEN IF ~hasValue(cookie) THEN Some(Url(Login, Some(pathname)))
       ELSE IF Len(Get(cookie)) # 3 THEN Some(Url(Login, Some(pathname)))
       ELSE None
  ELSE IF /\ \E route \in guestOnlyRoutes : startsWith(pathname, route)
          /\ hasValue(cookie)
          /\ Len(Get(cookie)) = 3
  THEN Some(Url(AboutMe, None))
  ELSE IF pathname = Home /\ hasValue(cookie) /\ Len(Get(cookie)) = 3
  THEN Some(Url(AboutMe, None))
  ELSE None

\* the effect of ProtectedRoute: Some(pathname) for router.push(pathname)
ProtectedRoute(redirectTo, authRequired, user, loading) ==
  IF loading THEN None
  ELSE IF authRequired /\ ~user THEN Some(redirectTo)
  ELSE IF ~authRequired /\ user THEN Some(Dashboard)
  ELSE None

\* the guard each page is wrapped in: GuestOnlyRoute for the auth pages,
\* AuthRequiredRoute for the dashboard, none for the home and about-me pages
PageEffect(pathname, user, loading) ==
  IF pathname \in guestOnlyRoutes THEN ProtectedRoute(Login, FALSE, user, loading)
  ELSE IF pathname = Dashboard THEN ProtectedRoute(Login, TRUE, user, loading)
  ELSE None

Pages == {Home, Login, Signup, ResetPage, AboutMe, Dashboard}

\* the browser opens a page; AuthProvider starts with user null and loading true
NavOpen ==
  \E pathname \in Pages, firebaseUser \in BOOLEAN, cookie \in NavCookies :
    /\ nav = NoNav
    /\ nav' = [stage |-> "request", path |-> pathname, redirect |-> None,
               firebaseUser |-> firebaseUser, user |-> FALSE, loading |-> TRUE,
               cookie |-> cookie]
    /\ UNCHANGED <<users, now, nextId, issued, req, resp, revoked, loggedOut, inFlight,
                   docVersion, verified, boot, passwords, outbox, resetCall, removal>>

\* the state of the browser after the middleware answered the request
Routed(answer) ==
  nav' = IF IsSome(answer)
         THEN [nav EXCEPT !.path = Get(answer).path, !.redirect = Get(answer).redirect]
         ELSE [nav EXCEPT !.stage = "render"]

\* the middleware answers the request for the page: the browser follows a
\* redirect, or the page renders
NavMiddleware ==
  /\ nav.stage = "request"
  /\ Routed(middleware(nav.path, nav.cookie))
  /\ UNCHANGED <<users, now, nextId, issued, req, resp, revoked, loggedOut, inFlight,
                 docVersion, verified, boot, passwords, outbox, resetCall, removal>>

\* onAuthStateChange fires: the user is set, createSession is tried for a
\* signed-in user and sets the cookie when it succeeds, loading ends
NavAuthState ==
  \E created \in BOOLEAN :
    /\ nav.stage # "closed"
    /\ nav.loading
    /\ nav' = [nav EXCEPT !.user = nav.firebaseUser, !.loading = FALSE,
                          !.cookie = IF nav.firebaseUser /\ created
                                     THEN Some(<<"h", "p", "s">>) ELSE @]
    /\ UNCHANGED <<users, now, nextId, issued, req, resp, revoked, loggedOut, inFlight,
                   docVersion, verified, boot, passwords, outbox, resetCall, removal>>

\* the state of the browser after the effect of the rendered page ran
Pushed(target) ==
  nav' = IF IsSome(target)
         THEN [nav EXCEPT !.stage = "request", !.path = Get(target), !.redirect = None]
         ELSE [nav EXCEPT !.stage = "settled"]

\* the page has rendered and loading has ended: its guard pushes another
\* page, or the page stays
NavRender ==
  /\ nav.stage = "render"
  /\ ~nav.loading
  /\ Pushed(PageEffect(nav.path, nav.user, nav.loading))
  /\ UNCHANGED <<users, now, nextId, issued, req, resp, revoked, loggedOut, inFlight,
                 docVersion, verified, boot, passwords, outbox, resetCall, removal>>

NextNav ==
  \/ NavOpen
  \/ NavMiddleware
  \/ NavAuthState
  \/ NavRender

\* the browser follows redirects, effects run after a render and the Firebase
\* SDK reports the auth state
SpecNav ==
  /\ Init
  /\ [][NextNav]_vars
  /\ WF_vars(NavMiddleware)
  /\ WF_vars(NavAuthState)
  /\ WF_vars(NavRender)

(* ------------------------- what the claims use ------------------------- *)
\* The session id of a token and the salt of the record saved for it are the
\* same random draw in this model, which tells which record was saved for
\* which token.
RecordsOf(db, tk) ==
  IF tk.payload.uid \in DOMAIN db
  THEN {i \in 1..Len(db[tk.payload.uid].sessions) :
          db[tk.payload.uid].sessions[i].tokenHash.salt = tk.payload.sessionId.r}
  ELSE {}

HasRecord(db, tk) == RecordsOf(db, tk) # {}

HasLiveRecord(db, tk, t) ==
  \E i \in RecordsOf(db, tk) : db[tk.payload.uid].sessions[i].expiresAt > t

\* the answer of GET /api/user/me to the cookie tk alone, the database reachable
CookieAnswer(db, tk, t) == UserMeGET(db, None, Some(tk), t, {})

\* C1: once logout's removeSession has removed the record of token T, GET
\* /api/user/me with T as the only credential answers 401, whatever other
\* sessions the user has.
C1_RevocationWins ==
  \A tk \in revoked : CookieAnswer(users, tk, now).status = 401

\* C2: the hash saved for one token is matched by no other token minted for the
\* same user.
C2_RecordMatchesOneToken ==
  \A t1 \in issued, t2 \in issued :
    (t1 # t2 /\ t1.payload.uid = t2.payload.uid)
      => \A i \in RecordsOf(users, t1) :
           ~compareSync(t2, users[t1.payload.uid].sessions[i].tokenHash)
\* C3: a createSession that answers with a new token has appended exactly one
\* record, the one of that token, to the user's unexpired records, kept those in
\* place, and every token that validated before still validates.
C3_CreateAddsOneKeepsOthers ==
  [][ (req'.op = "createSession" /\ resp'.cookie.set) =>
        LET tk == Get(resp'.cookie.value)
            uid == tk.payload.uid
            old == IF uid \in DOMAIN users THEN users[uid].sessions ELSE <<>>
            kept == SelectSeq(old, LAMBDA r : r.expiresAt > now)
            new == users'[uid].sessions
        IN /\ Len(new) = Len(kept) + 1
           /\ SubSeq(new, 1, Len(kept)) = kept
           /\ RecordsOf(users, tk) = {}
           /\ RecordsOf(users', tk) = {Len(new)}
           /\ \A o \in issued :
                validateUserSession(users, o.payload.uid, o, now, {}).valid
                  => validateUserSession(users', o.payload.uid, o, now', {}).valid
    ]_vars

\* C3 witness: a createSession has answered with a token while an earlier
\* session of the user is still stored.
C3_Witness ==
  /\ req.op = "createSession"
  /\ resp.cookie.set
  /\ Len(users[U1].sessions) >= 2

\* C4: a logout removes no record other than the one saved for its token: every
\* other token keeps its record, and still validates if it did.
C4_LogoutRemovesOnlyOwnRecord ==
  [][ req'.op = "logout" =>
        \A tk \in issued :
          req'.cookie # Some(tk) =>
            /\ HasRecord(users, tk) => HasRecord(users', tk)
            /\ validateUserSession(users, tk.payload.uid, tk, now, {}).valid
                 => validateUserSession(users', tk.payload.uid, tk, now', {}).valid
    ]_vars

\* C5: a response of createSession or refreshSession that sets the session
\* cookie has the record of that token stored, and when upsertUser or
\* addUserSession failed after the assertion verified the response is an error
\* without cookie.
C5_NoTokenWithoutRecord ==
  req.op \in {"createSession", "refreshSession"} =>
    /\ resp.cookie.set =>
         /\ resp.success
         /\ IsSome(resp.cookie.value)
         /\ HasLiveRecord(users, Get(resp.cookie.value), now)
         /\ validateUserSession(users, Get(resp.cookie.value).payload.uid,
                                Get(resp.cookie.value), now, {}).valid
    /\ (Get(req.idToken).kind = "valid"
         /\ req.down \cap {"upsertUser", "addUserSession"} # {})
         => (~resp.success /\ resp.status = 500 /\ ~resp.cookie.set)

\* C5 witness: addUserSession failed after the assertion verified, and the
\* answer is an error without cookie.
C5_Witness ==
  /\ req.op \in {"createSession", "refreshSession"}
  /\ Get(req.idToken).kind = "valid"
  /\ req.down = {"addUserSession"}
  /\ resp.status = 500
  /\ ~resp.cookie.set

\* C6: with an assertion that fails verification (and the database reachable),
\* createSession succeeds, flagged fallback, exactly when the request carries a
\* session token that verifies and whose own record is stored and unexpired for
\* an existing user; otherwise it answers 401.
C6_FallbackIffLiveRecord ==
  (req.op = "createSession" /\ Get(req.idToken).kind = "invalid" /\ req.down = {}) =>
    LET carries == /\ IsSome(req.cookie)
                   /\ IsSome(verifyJWT(Get(req.cookie), now))
                   /\ Get(req.cookie).payload.uid \in DOMAIN users
                   /\ HasLiveRecord(users, Get(req.cookie), now)
    IN IF carries
       THEN /\ resp.success /\ resp.fallback /\ resp.status = 200
            /\ resp.user = Some(UserView(users[Get(req.cookie).payload.uid], FALSE))
       ELSE ~resp.success /\ resp.status = 401

\* C7: GET /api/user/me (database reachable) answers from the ID token when one
\* is present, verifies and its user exists, whatever the session store holds;
\* otherwise, also after a failed ID token, from the session cookie checked
\* against the store; otherwise 401.
C7_TwoPathsInOrder ==
  (req.op = "validateSession" /\ req.down \in {{}, {"validateUserSession"}}) =>
    LET byBearer == /\ IsSome(req.idToken)
                    /\ verifyIdToken(Get(req.idToken)).success
                    /\ Get(req.idToken).uid \in DOMAIN users
        byCookie == /\ req.down = {}
                    /\ IsSome(req.cookie)
                    /\ IsSome(verifyJWT(Get(req.cookie), now))
                    /\ validateUserSession(users, Get(req.cookie).payload.uid,
                                           Get(req.cookie), now, {}).valid
    IN IF byBearer
       THEN /\ resp.success /\ resp.source = "firebase"
            /\ Get(resp.user).uid = Get(req.idToken).uid
       ELSE IF byCookie
       THEN /\ resp.success /\ resp.source = "database"
            /\ Get(resp.user).uid = Get(req.cookie).payload.uid
       ELSE IF req.down = {}
       THEN ~resp.success /\ resp.status = 401
       ELSE ~resp.success

\* C7 witness: the ID token of the request failed, and the cookie of the same
\* request was accepted.
C7_Witness ==
  /\ req.op = "validateSession"
  /\ IsSome(req.idToken)
  /\ Get(req.idToken).kind = "invalid"
  /\ resp.success
  /\ resp.source = "database"

\* C8: after a session token was validated through the cookie path, the user's
\* lastSeen is the time of that validation.
C8_ValidationUpdatesLastSeen ==
  (req.op = "validateSession" /\ resp.success /\ resp.source = "database") =>
    users[Get(resp.user).uid].lastSeen = now

\* whether the removal of the logout just answered did not throw (it ran, or
\* was not attempted)
LogoutDidNotThrow ==
  ~IsSome(req.cookie) \/ ~IsSome(verifyJWT(Get(req.cookie), now)) \/ req.down = {}

C10_LoggedOutTokenRejected ==
  \A tk \in loggedOut :
    /\ ~HasRecord(users, tk)
    /\ ~CookieAnswer(users, tk, now).success

\* C11: a refreshSession whose ID token Firebase rejects answers 401 without
\* cookie and without fallback, whatever session cookie the request carries, and
\* leaves the database as it was.
C11_RefreshNeedsFreshAssertion ==
  [][ (req'.op = "refreshSession" /\ Get(req'.idToken).kind = "invalid") =>
        /\ resp'.status = 401
        /\ ~resp'.success
        /\ ~resp'.fallback
        /\ resp'.cookie = NoCookie
        /\ resp'.user = None
        /\ users' = users
    ]_vars

\* C11 witness: a refreshSession with a rejected ID token and a session cookie
\* that GET /api/user/me accepts has been answered 401.
C11_Witness ==
  /\ req.op = "refreshSession"
  /\ Get(req.idToken).kind = "invalid"
  /\ IsSome(req.cookie)
  /\ CookieAnswer(users, Get(req.cookie), now).success
  /\ resp.status = 401

\* C12: after a refreshSession that answered with a new token, was given a
\* session token that verifies and has its record stored, and whose removal of
\* the old session did not throw, the old token no longer validates, its record
\* is gone and stays gone, and the new token validates.
C12_RotationOnRefresh ==
  [][ ( /\ req'.op = "refreshSession"
        /\ resp'.success
        /\ IsSome(req'.cookie)
        /\ IsSome(verifyJWT(Get(req'.cookie), now))
        /\ HasRecord(users, Get(req'.cookie))
        /\ "removeUserSession" \notin req'.down ) =>
        LET old == Get(req'.cookie)
            new == Get(resp'.cookie.value)
        IN /\ ~HasRecord(users', old)
           /\ validateUserSession(users', new.payload.uid, new, now', {}).valid
           /\ ~validateUserSession(users', old.payload.uid, old, now', {}).valid
    ]_vars

\* C13: a refreshSession with a verified ID token and no old session to remove
\* (database reachable) does what createSession does for the same ID token in
\* the same database: the same status, the same user view, the same database
\* afterwards, and a token carrying the same uid, email, name, provider and
\* photoURL.
C13_RefreshMintsAsCreate ==
  [][ ( /\ req'.op = "refreshSession"
        /\ Get(req'.idToken).kind = "valid"
        /\ req'.cookie = None
        /\ req'.down = {} ) =>
        LET create == SessionPOST(users, Get(req'.idToken), None, now, nextId, {})
        IN /\ resp'.status = create.resp.status
           /\ resp'.success = create.resp.success
           /\ resp'.user = create.resp.user
           /\ resp'.cookie.set = create.resp.cookie.set
           /\ users' = create.db
           /\ resp'.cookie.set =>
                LET new == Get(resp'.cookie.value).payload
                    ref == Get(create.resp.cookie.value).payload
                IN /\ new.uid = ref.uid
                   /\ new.email = ref.email
                   /\ new.name = ref.name
                   /\ new.provider = ref.provider
                   /\ new.photoURL = ref.photoURL
    ]_vars

\* C14: when two createSession calls that ran concurrently have both answered
\* with a token, the records of both tokens are stored and both tokens
\* validate, for as long as neither has expired.
C14_ConcurrentLoginsKeepBoth ==
  \A c \in CallIds, d \in CallIds :
    ( /\ c # d
      /\ inFlight[c].pc = "done" /\ inFlight[c].status = 200
      /\ inFlight[d].pc = "done" /\ inFlight[d].status = 200
      /\ now < Get(inFlight[c].token).payload.exp
      /\ now < Get(inFlight[d].token).payload.exp ) =>
      /\ HasLiveRecord(users, Get(inFlight[c].token), now)
      /\ HasLiveRecord(users, Get(inFlight[d].token), now)
      /\ validateUserSession(users, Get(inFlight[c].token).payload.uid,
                             Get(inFlight[c].token), now, {}).valid
      /\ validateUserSession(users, Get(inFlight[d].token).payload.uid,
                             Get(inFlight[d].token), now, {}).valid

\* C14 witness: two calls, one started while the other was under way, have both
\* answered with a token, and neither token has expired.
C14_Witness ==
  \E c \in CallIds, d \in CallIds :
    /\ c \in inFlight[d].seen
    /\ inFlight[c].pc = "done" /\ inFlight[c].status = 200
    /\ inFlight[d].pc = "done" /\ inFlight[d].status = 200
    /\ now < Get(inFlight[c].token).payload.exp
    /\ now < Get(inFlight[d].token).payload.exp

\* C15: something other than the number of logins caps a user's sessions list:
\* the list stays shorter than the number of sessions a behaviour creates
\* (MaxTokens), whatever that number is.
C15_SessionsBounded ==
  \A u \in DOMAIN users : Len(users[u].sessions) < MaxTokens

\* C16: no two documents share a uid or an email; an upsertUser that does not
\* throw leaves one document for its uid, holding the (lower-cased) email it was
\* given, and changes no other document; one that throws changes nothing, and it
\* throws only when its email is the email of another document.
C16_UidAndEmailUnique ==
  /\ \A u \in DOMAIN users, w \in DOMAIN users :
       (users[u].uid = users[w].uid \/ users[u].email = users[w].email) => u = w
  /\ \A userData \in UpsertInputs :
       LET up == upsertUser(users, userData, now, {})
       IN IF up.ok
          THEN /\ DOMAIN up.db = DOMAIN users \cup {userData.uid}
               /\ up.db[userData.uid].uid = userData.uid
               /\ up.db[userData.uid].email = toLowerCase(userData.email)
               /\ \A w \in DOMAIN users : w # userData.uid => up.db[w] = users[w]
          ELSE /\ up.db = users
               /\ \E w \in DOMAIN users :
                    w # userData.uid /\ users[w].email = toLowerCase(userData.email)

\* C16 witness: two users are stored, the email of one of them was changed by a
\* later upsert, and the last upsert was refused.
C16_Witness ==
  /\ DOMAIN users = {U1, U2}
  /\ \E u \in DOMAIN users : users[u].createdAt < users[u].lastSeen
  /\ users[U1].email = "b@x"
  /\ resp.status = 500

\* C17: upsertUser on a uid that has a document leaves that document's sessions
\* and createdAt as they were and sets lastSeen; so does the step of a
\* createSession whose upsertUser ran and whose addUserSession then failed.
C17_UpsertKeepsSessions ==
  [][ /\ \A userData \in UpsertInputs :
           LET up == upsertUser(users, userData, now, {})
           IN (up.ok /\ userData.uid \in DOMAIN users) =>
                /\ up.db[userData.uid].sessions = users[userData.uid].sessions
                /\ up.db[userData.uid].createdAt = users[userData.uid].createdAt
                /\ up.db[userData.uid].lastSeen = now
      /\ ( /\ req'.op = "createSession"
           /\ Get(req'.idToken).kind = "valid"
           /\ req'.down = {"addUserSession"}
           /\ Get(req'.idToken).uid \in DOMAIN users ) =>
           /\ users'[Get(req'.idToken).uid].sessions = users[Get(req'.idToken).uid].sessions
           /\ users'[Get(req'.idToken).uid].createdAt = users[Get(req'.idToken).uid].createdAt
           /\ users'[Get(req'.idToken).uid].lastSeen = now
    ]_vars

\* C17 witness: a createSession of a user with a stored session ran upsertUser
\* at a later time than the user was created, and its addUserSession failed.
C17_Witness ==
  /\ req.op = "createSession"
  /\ req.down = {"addUserSession"}
  /\ Get(req.idToken).kind = "valid"
  /\ U1 \in DOMAIN users
  /\ Len(users[U1].sessions) >= 1
  /\ users[U1].createdAt < users[U1].lastSeen
  /\ users[U1].lastSeen = now

\* C18: verifyJWT returns the claims of a token exactly when its signature is
\* the server's over its payload, its issuer and audience are the fixed ones and
\* it has not expired, and null otherwise; a token signJWT signed at time iat
\* verifies at every time before iat + SessionTTL and at none from then on.
C18_VerifyAllOrNothing ==
  /\ \A tk \in Candidates :
       IF /\ tk.sig = <<JWT_SECRET, tk.payload>>
          /\ Claim(tk.payload, "iss") = Issuer
          /\ Claim(tk.payload, "aud") = Audience
          /\ now < tk.payload.exp
       THEN verifyJWT(tk, now) = Some(tk.payload)
       ELSE verifyJWT(tk, now) = None
  /\ \A tk \in issued :
       "sessionId" \in DOMAIN tk.payload =>
         \A t \in tk.payload.iat..MaxTime :
           IsSome(verifyJWT(tk, t)) <=> t < tk.payload.iat + SessionTTL
  /\ IsSome(verified.session) =>
       /\ Get(verified.token) \in issued
       /\ verified.at < Get(verified.token).payload.exp

\* C18 witness: a session token that verifyJWT accepted when it was handed in
\* is refused now that its expiry has come.
C18_Witness ==
  /\ IsSome(verified.session)
  /\ now >= Get(verified.token).payload.exp
  /\ verifyJWT(Get(verified.token), now) = None

\* C20: verifyResetToken returns the claims of a token exactly when its
\* signature is the server's over its payload, it has not expired and its type
\* is password_reset, and null otherwise, also for a session token, which is
\* signed with the same key and has no type; a token generateResetToken signed
\* at time iat verifies at every time before iat + ResetTTL and at none from
\* then on.
C20_ResetVerifyAllOrNothing ==
  /\ \A tk \in Candidates :
       IF /\ tk.sig = <<JWT_SECRET, tk.payload>>
          /\ now < tk.payload.exp
          /\ Claim(tk.payload, "type") = PasswordReset
       THEN verifyResetToken(tk, now) = Some(tk.payload)
       ELSE verifyResetToken(tk, now) = None
  /\ \A tk \in issued :
       IF "type" \in DOMAIN tk.payload
       THEN \A t \in tk.payload.iat..MaxTime :
              IsSome(verifyResetToken(tk, t)) <=> t < tk.payload.iat + ResetTTL
       ELSE \A t \in tk.payload.iat..MaxTime : verifyResetToken(tk, t) = None
  /\ IsSome(verified.reset) =>
       /\ Get(verified.token) \in issued
       /\ Get(verified.token).payload.type = PasswordReset
       /\ verified.at < Get(verified.token).payload.exp

\* C20 witness: a reset token that verifyResetToken accepted when it was handed
\* in is refused now that its expiry has come, and a session token that has
\* not expired is in circulation.
C20_Witness ==
  /\ IsSome(verified.reset)
  /\ now >= Get(verified.token).payload.exp
  /\ verifyResetToken(Get(verified.token), now) = None
  /\ \E tk \in issued : IsSome(verifyJWT(tk, now))

\* C19: whatever the environment settings, when the configured JWT_SECRET (a
\* value that is set and not empty) is shorter than 32 characters environment
\* validation throws, and no session or reset token is signed or verified with
\* that key.
C19_ShortSecretRefused ==
  (/\ IsSome(boot.penv)
   /\ Get(boot.penv).JWT_SECRET \notin {Absent, ""}
   /\ Length(Get(boot.penv).JWT_SECRET) < MinSecretLen)
  => /\ boot.threw
     /\ Loaded /\ Get(boot.cachedEnv).JWT_SECRET = Get(boot.penv).JWT_SECRET
          => issued = {} /\ verified = NoVerify

\* the tokens in circulation that generateResetToken minted, and those that
\* signJWT minted
ResetMinted == {tk \in issued : tk = generateResetToken(UserId, "a@x", tk.payload.iat)}
SessionMinted == issued \ ResetMinted

\* C21: the two token families share one secret and stay apart: verifyJWT
\* accepts no token that generateResetToken minted, at any time, and
\* verifyResetToken accepts no token that signJWT minted, at any time; a token
\* of one family that was handed to both verifiers was refused by the other
\* family's verifier.
C21_PurposeIsolation ==
  /\ \A tk \in ResetMinted : \A t \in 0..MaxTime : verifyJWT(tk, t) = None
  /\ \A tk \in SessionMinted : \A t \in 0..MaxTime : verifyResetToken(tk, t) = None
  /\ IsSome(verified.token) /\ Get(verified.token) \in ResetMinted
       => verified.session = None
  /\ IsSome(verified.token) /\ Get(verified.token) \in SessionMinted
       => verified.reset = None

\* C21 witness: a reset token with the server's signature, not expired, was
\* handed to both verifiers: verifyResetToken accepted it and verifyJWT refused
\* it, while a session token that verifyJWT accepts now is in circulation.
C21_Witness ==
  /\ IsSome(verified.token)
  /\ Get(verified.token) \in ResetMinted
  /\ IsSome(verified.reset)
  /\ verified.session = None
  /\ \E tk \in SessionMinted : IsSome(verifyJWT(tk, now)) /\ verifyResetToken(tk, now) = None

\* what POST /api/auth/reset-password answers now for email when the mail is
\* delivered and the store answers: status, success, message, error
RequestAnswer(email) ==
  IF createResetRequest(users, passwords, outbox, email, now, TRUE, {}).success
  THEN <<200, TRUE,
         createResetRequest(users, passwords, outbox, email, now, TRUE, {}).message, "none">>
  ELSE <<400, FALSE, "none",
         createResetRequest(users, passwords, outbox, email, now, TRUE, {}).message>>

\* C22: createResetRequest does not reveal whether an email has an account:
\* when a reset request is answered with the store up and the mail delivered
\* where one is sent, the same request for any other email, registered or not,
\* gets the same status and body; and a mail leaves only for a registered user.
C22_NoAccountEnumeration ==
  [][(/\ resetCall' # resetCall
      /\ resetCall'.op = "request"
      /\ resetCall'.smtp
      /\ resetCall'.down = {})
     => /\ \A e \in ResetEmails :
             RequestAnswer(e) = <<resetCall'.status, resetCall'.success,
                                  resetCall'.message, resetCall'.error>>
        /\ outbox' # outbox => IsSome(findByEmail(users, resetCall'.email, {}).user)]_vars

\* C23: when a confirmation arrives with a reset token that verifies for a
\* registered user and the identity provider accepts the password update, the
\* call answers success and the new password stays, whether the confirmation
\* mail is delivered or not; the mail is in the outbox only when delivered.
C23_ConfirmationMailNotFatal ==
  [][(/\ resetCall' # resetCall
      /\ resetCall'.op = "confirm"
      /\ resetCall'.down = {}
      /\ IsSome(verifyResetToken(Get(resetCall'.token), now))
      /\ IsSome(findByEmail(users, Get(resetCall'.token).payload.email, {}).user))
     => /\ resetCall'.success
        /\ resetCall'.status = 200
        /\ resetCall'.message = "Password reset successfully"
        /\ passwords'[Get(findByEmail(users, Get(resetCall'.token).payload.email,
                                      {}).user).uid] = NewPassword
        /\ ~resetCall'.smtp => outbox' = outbox]_vars

\* C23 witness: a confirmation whose mail was not delivered answered success,
\* the account has the new password and no confirmation mail is in the
\* outbox.
C23_Witness ==
  /\ resetCall.op = "confirm"
  /\ ~resetCall.smtp
  /\ resetCall.success
  /\ resetCall.status = 200
  /\ \E u \in DOMAIN passwords : passwords[u] = NewPassword
  /\ \A m \in outbox : IsSome(m.token)

\* the fixed reasons a response of the session routes may carry
FixedReasons ==
  {"none", "Invalid request data", "Authentication failed", "Invalid ID token",
   "Internal server error", "User not found", "No authentication found",
   "Invalid session", "Session expired or invalid"}

\* C24: every response of createSession, refreshSession, validateSession and
\* logout is a success flag with a short fixed reason and carries no detail
\* of the error the identity provider or the store produced.
C24_NoInternalDetail ==
  /\ resp.error \in FixedReasons
  /\ resp.details # "upstream error message"

\* the request being answered carries a session token with a valid signature
\* and the store call that validates it, or the one that loads its user after
\* it validated, cannot reach the store
StoreUnavailable ==
  /\ req.op \in {"validateSession", "requireAuth"}
  /\ IsSome(req.cookie)
  /\ IsSome(verifyJWT(Get(req.cookie), now))
  /\ \/ "validateUserSession" \in req.down
     \/ /\ "findByUid" \in req.down
        /\ validateUserSession(users, Get(req.cookie).payload.uid, Get(req.cookie), now,
                               {}).valid

\* C25: a request whose session token has a valid signature and whose
\* validation fails only because the store cannot be reached is never
\* answered 401, by GET /api/user/me and by a handler wrapped by requireAuth.
C25_StoreUnavailableNot401 == StoreUnavailable => resp.status # 401

\* C26: a refreshSession that verified its ID token and was given a session
\* token that verifies, and whose removeUserSession threw, still answers 200
\* with a new token whose record is stored; it removes nothing, so the record
\* of the old token is the one record it leaves behind that a removal would
\* have taken, and that record validates the old token before its expiresAt
\* and nothing from then on, when GET /api/user/me also answers the old token
\* 401.
C26_BestEffortRemoval ==
  [][ ( /\ req'.op = "refreshSession"
        /\ Get(req'.idToken).kind = "valid"
        /\ IsSome(req'.cookie)
        /\ IsSome(verifyJWT(Get(req'.cookie), now))
        /\ "removeUserSession" \in req'.down ) =>
        /\ resp'.status = 200
        /\ resp'.success
        /\ IsSome(resp'.cookie.value)
        /\ Get(resp'.cookie.value) \notin issued
        /\ Get(resp'.cookie.value) \in issued'
        /\ HasLiveRecord(users', Get(resp'.cookie.value), now)
        /\ Len(users'[Get(req'.cookie).payload.uid].sessions)
             = Len(cleanExpiredSessions(users[Get(req'.cookie).payload.uid], now).sessions) + 1
        /\ Cardinality(RecordsOf(users', Get(req'.cookie))) <= 1
        /\ \A i \in RecordsOf(users', Get(req'.cookie)) :
             \A t \in now..(MaxTime + SessionTTL) :
               /\ validateSession(
                    [sessions |-> <<users'[Get(req'.cookie).payload.uid].sessions[i]>>],
                    Get(req'.cookie), t)
                  <=> t < users'[Get(req'.cookie).payload.uid].sessions[i].expiresAt
               /\ t >= users'[Get(req'.cookie).payload.uid].sessions[i].expiresAt
                    => CookieAnswer(users', Get(req'.cookie), t).status = 401
    ]_vars

\* C26 witness: a refresh whose removal of the old session threw has answered
\* 200 with a new token, and the record of the old token is still stored next
\* to the record of the new one.
C26_Witness ==
  /\ req.op = "refreshSession"
  /\ "removeUserSession" \in req.down
  /\ IsSome(req.cookie)
  /\ resp.status = 200
  /\ IsSome(resp.cookie.value)
  /\ HasLiveRecord(users, Get(req.cookie), now)
  /\ HasLiveRecord(users, Get(resp.cookie.value), now)
  /\ Get(req.cookie) # Get(resp.cookie.value)

\* C27: UserService.validateUserSession(uid, token) answers true exactly when
\* uid has a document and one of its records has expiresAt after now and a hash
\* that token matches; when every record the token matches has expired, swept
\* or not, it answers false, and for a uid without a document it answers false
\* and does not throw.
C27_ValidateIffLiveMatch ==
  \A uid \in {U1, U2} : \A tk \in issued \cup {Tampered(x) : x \in issued} :
    /\ validateUserSession(users, uid, tk, now, {}).ok
    /\ validateUserSession(users, uid, tk, now, {}).valid
         <=> /\ uid \in DOMAIN users
             /\ \E i \in 1..Len(users[uid].sessions) :
                  /\ now < users[uid].sessions[i].expiresAt
                  /\ compareSync(tk, users[uid].sessions[i].tokenHash)
    /\ uid \notin DOMAIN users => ~validateUserSession(users, uid, tk, now, {}).valid
    /\ (/\ uid \in DOMAIN users
        /\ \A i \in 1..Len(users[uid].sessions) :
             compareSync(tk, users[uid].sessions[i].tokenHash)
               => users[uid].sessions[i].expiresAt <= now)
         => ~validateUserSession(users, uid, tk, now, {}).valid

\* C27 witness: the record of an issued token is still in the list after its
\* expiresAt and the token does not validate, while a uid without a document
\* exists.
C27_Witness ==
  /\ U2 \notin DOMAIN users
  /\ \E tk \in issued :
       /\ HasRecord(users, tk)
       /\ ~HasLiveRecord(users, tk, now)
       /\ \E i \in RecordsOf(users, tk) :
            compareSync(tk, users[tk.payload.uid].sessions[i].tokenHash)
       /\ ~validateUserSession(users, tk.payload.uid, tk, now, {}).valid
       /\ ~validateUserSession(users, U2, tk, now, {}).valid

\* C28: a refreshSession that answers without a new token leaves the session
\* it was called with as it was: when the old token verified and validated
\* before the call, its record is still stored after it and GET /api/user/me
\* still answers the old token 200.
C28_FailedRefreshKeepsSession ==
  [][ ( /\ req'.op = "refreshSession"
        /\ ~IsSome(resp'.cookie.value)
        /\ IsSome(req'.cookie)
        /\ HasLiveRecord(users, Get(req'.cookie), now)
        /\ CookieAnswer(users, Get(req'.cookie), now).status = 200 ) =>
        /\ HasRecord(users', Get(req'.cookie))
        /\ CookieAnswer(users', Get(req'.cookie), now).status = 200
    ]_vars

\* C29: when a removeUserSession of token A and a createSession that minted
\* another token B of the same user have both completed without a throw, in
\* whatever order their reads and saves ran, A has no record and does not
\* validate, and B, until it expires, has its record and validates.
C29_LogoutNextToLogin ==
  \A c \in CallIds :
    ( /\ removal.pc = "done" /\ removal.status = 200
      /\ inFlight[c].pc = "done" /\ inFlight[c].status = 200
      /\ Get(inFlight[c].token) # Get(removal.token)
      /\ Get(inFlight[c].token).payload.uid = Get(removal.token).payload.uid
      /\ now < Get(inFlight[c].token).payload.exp ) =>
      /\ ~HasRecord(users, Get(removal.token))
      /\ HasLiveRecord(users, Get(inFlight[c].token), now)
      /\ validateUserSession(users, Get(inFlight[c].token).payload.uid,
                             Get(inFlight[c].token), now, {}).valid

====
